---- MODULE Spec2Model ----
(***************************************************************************)
(* A model of scoreWDLstat.cpp: the per-game feature extraction            *)
(* (analysis::ana_game with analysis::fast_stof), the chunk planner        *)
(* (split_chunks) and the concurrent aggregation of main (one pool task    *)
(* per chunk, merged into pos_map under map_mutex).                        *)
(*                                                                         *)
(* Strings that the code inspects character by character (the move         *)
(* comments) are sequences of one-character strings; "NUL" is the          *)
(* terminating '\0' of a std::string / C string.                           *)
(***************************************************************************)
EXTENDS Integers, Sequences, FiniteSets, TLC

VARIABLES
    \* ---- analysis::ana_game (one call) ----
    game,           \* the record handed to ana_game: [headers, moves]
    pcG,            \* position in ana_game: "entry", "loop", "done", "idle"
    resultkey,      \* ResultKey: [white, black]
    board,          \* the Board
    ply,            \* int ply
    it,             \* the range-for iterator: moves consumed so far
    emitted,        \* history: the increments made, [idx, stm, comment, key]
    entry_map,      \* history: the table as it was handed to ana_game
    \* ---- split_chunks (one call) ----
    pgns,           \* the argument pgns
    target_chunks,  \* the argument target_chunks (main: local of that name)
    chunks_size,    \* const int chunks_size
    begin,          \* iterator begin, as the number of files before it
    chunks,         \* the vector being built
    pcS,            \* "entry", "loop", "done", "idle"
    \* ---- main ----
    hw,             \* std::thread::hardware_concurrency()
    files_pgn,      \* the files found
    files_chunked,  \* split_chunks(files_pgn, target_chunks)
    pos_map,        \* the table: main's pos_map / ana_game's parameter pos_map
    map_mutex,      \* 0 when free, else the task holding it
    total_chunks,   \* the atomic progress counter
    pcM,            \* main's position
    submitted,      \* number of tasks enqueued so far
    pcT,            \* per task: position in the lambda
    map,            \* per task: the local map_t map
    fileIdx,        \* per task: files of the chunk already analysed
    merged,         \* per task: keys of map already folded into pos_map
    nmerges,        \* history, per task: merges of its map completed
    json,           \* nlohmann::json j, as written to scoreWDLstat.json
    consumed        \* history: times main has read pos_map into j

gameVars  == <<game, pcG, resultkey, board, ply, it, emitted, entry_map>>
splitVars == <<pgns, chunks_size, begin, chunks, pcS>>
mainVars  == <<hw, files_pgn, files_chunked, map_mutex, total_chunks, pcM,
               submitted, pcT, map, fileIdx, merged, nmerges, json, consumed>>
vars == <<gameVars, splitVars, mainVars, pos_map, target_chunks>>

-----------------------------------------------------------------------------
(* Characters and strings *)

NUL == "NUL"

Digits == <<"0", "1", "2", "3", "4", "5", "6", "7", "8", "9">>

IsDigit(c) == \E d \in 1..10 : Digits[d] = c

DigitVal(c) == (CHOOSE d \in 1..10 : Digits[d] = c) - 1

\* s[i] of a std::string, i counted from 0.  s[size()] is the terminator;
\* an index beyond it is read out of bounds and yields whatever is there: oob.
CharAt(s, i, oob) ==
    IF i < Len(s) THEN s[i + 1]
    ELSE IF i = Len(s) THEN NUL
    ELSE oob

\* std::string::find(c): the 0-based position of the first c, or -1 (npos).
RECURSIVE FindFrom(_, _, _)
FindFrom(s, c, i) ==
    IF i >= Len(s) THEN -1
    ELSE IF s[i + 1] = c THEN i
    ELSE FindFrom(s, c, i + 1)

Find(s, c) == FindFrom(s, c, 0)

\* std::string::substr(0, n)
Substr0(s, n) == SubSeq(s, 1, n)

-----------------------------------------------------------------------------
(* IEEE-754 binary32 values: [neg, m, e] stands for (-1)^neg * m * 2^e with  *)
(* m = 0 or 2^23 <= m < 2^24.  Operations round to nearest, ties to even.    *)

F32Values == [neg : BOOLEAN, m : Nat, e : Int]

\* A value (-1)^neg * (q + r/d) * 2^e on its way to 24 significant bits,
\* 0 <= r < d
F32Parts == [neg : BOOLEAN, q : Nat, r : Nat, d : Nat, e : Int]

\* q < 2^23: shift left until the significand has 24 bits
F32Up[x \in F32Parts] ==
    IF x.q >= 2^23 THEN x
    ELSE F32Up[[x EXCEPT !.q = 2 * x.q + (IF 2 * x.r >= x.d THEN 1 ELSE 0),
                         !.r = (2 * x.r) % x.d,
                         !.e = x.e - 1]]

\* q >= 2^24: shift right, keeping the bits shifted out
F32Down[x \in F32Parts] ==
    IF x.q < 2^24 THEN x
    ELSE F32Down[[x EXCEPT !.q = x.q \div 2,
                           !.r = x.r + (x.q % 2) * x.d,
                           !.d = 2 * x.d,
                           !.e = x.e + 1]]

\* Round to nearest, ties to even, a value whose q has 24 bits
F32Round[x \in F32Parts] ==
    LET up == 2 * x.r > x.d \/ (2 * x.r = x.d /\ x.q % 2 = 1)
        q1 == IF up THEN x.q + 1 ELSE x.q
    IN  IF q1 = 2^24 THEN [neg |-> x.neg, m |-> 2^23, e |-> x.e + 1]
        ELSE [neg |-> x.neg, m |-> q1, e |-> x.e]

\* The binary32 nearest to x
F32[x \in F32Parts] ==
    IF x.q = 0 /\ x.r = 0 THEN [neg |-> x.neg, m |-> 0, e |-> 0]
    ELSE IF x.q >= 2^24 THEN F32Round[F32Down[x]]
    ELSE F32Round[F32Up[x]]

\* float / float for two values that are exact integers n and d
F32DivInt(neg, n, d) ==
    F32[[neg |-> neg, q |-> n \div d, r |-> n % d, d |-> d, e |-> 0]]

\* int * float: the int operand is converted to float, the product rounded
F32MulInt[k \in Nat, f \in F32Values] ==
    F32[[neg |-> f.neg, q |-> k * f.m, r |-> 0, d |-> 1, e |-> f.e]]

\* float -> int conversion: truncation toward zero
F32ToInt[f \in F32Values] ==
    LET mag == IF f.m = 0 THEN 0
               ELSE IF f.e >= 0 THEN f.m * 2^(f.e)
               ELSE IF -f.e > 24 THEN 0
               ELSE f.m \div 2^(-f.e)
    IN  IF f.neg THEN -mag ELSE mag

-----------------------------------------------------------------------------
(* analysis::fast_stof *)

\* The two digit loops: `step` is 1 in the integer part and 10 in the
\* fractional part (fraction *= 10.0f).  result and fraction stay below 2^24
\* for the inputs of this model, so every float in the loops is exact.
RECURSIVE ScanDigits(_, _, _, _, _)
ScanDigits(str, i, result, fraction, step) ==
    IF IsDigit(CharAt(str, i, NUL))
    THEN ScanDigits(str, i + 1, result * 10 + DigitVal(CharAt(str, i, NUL)),
                    fraction * step, step)
    ELSE [result |-> result, fraction |-> fraction, i |-> i]

fast_stof(str) ==
    LET neg  == CharAt(str, 0, NUL) = "-"
        i0   == IF CharAt(str, 0, NUL) \in {"-", "+"} THEN 1 ELSE 0
        ip   == ScanDigits(str, i0, 0, 1, 1)
        dot  == CharAt(str, ip.i, NUL) = "."
        fp   == IF dot THEN ScanDigits(str, ip.i + 1, ip.result, 1, 10) ELSE ip
    IN  IF dot THEN F32DivInt(neg, fp.result, fp.fraction)
        ELSE F32DivInt(neg, ip.result, 1)

-----------------------------------------------------------------------------
(* Key, map_t and the score of one move comment *)

WIN  == "W"
DRAW == "D"
LOSS == "L"

NoScore    == 1002
MateScore  == 1001
ScoreLimit == 1000
ScoreStep  == 5
PlyCutoff  == 400

EmptyMap == [k \in {} |-> 0]

\* m[key] += n on an unordered_map: an absent key is created at 0 first
MapAdd(m, key, n) ==
    IF key \in DOMAIN m THEN [m EXCEPT ![key] = @ + n]
    ELSE [k \in DOMAIN m \cup {key} |-> IF k = key THEN n ELSE m[k]]

Book == <<"b", "o", "o", "k">>

\* Clamp without the lower limit of lines 170-171
ClampUpperOnly(score) == IF score > ScoreLimit THEN ScoreLimit ELSE score

\* lines 168-172
Clamp(score) ==
    IF score > ScoreLimit THEN ScoreLimit
    ELSE IF score < -ScoreLimit THEN -ScoreLimit
    ELSE score

\* line 174: int(std::floor(score / 5.0)) * 5
Quantize(score) == (score \div ScoreStep) * ScoreStep

\* The mate test on the first character instead of the second
IsMateFirstChar(match_score, oob) == CharAt(match_score, 0, oob) = "M"

\* line 158: match_score[1] == 'M'
IsMate(match_score, oob) == CharAt(match_score, 1, oob) = "M"

\* lines 159-163
MateSentinel(match_score, oob) ==
    IF CharAt(match_score, 0, oob) = "+" THEN MateScore ELSE -MateScore

\* lines 150-176: key.score for a move comment
Score(comment, oob) ==
    LET delimiter_pos == Find(comment, "/")
    IN  IF delimiter_pos # -1 /\ comment # Book
        THEN LET match_score == Substr0(comment, delimiter_pos)
             IN  IF IsMate(match_score, oob)
                 THEN MateSentinel(match_score, oob)
                 ELSE Quantize(Clamp(F32ToInt[F32MulInt[100, fast_stof(match_score)]]))
        ELSE NoScore

-----------------------------------------------------------------------------
(* The Board of the chess library, as far as ana_game uses it *)

PieceTypes == {"QUEEN", "ROOK", "BISHOP", "KNIGHT", "PAWN"}

StartPieces ==
    [t \in PieceTypes |->
        CASE t = "QUEEN" -> 1 [] t = "PAWN" -> 8 [] OTHER -> 2]

\* Board(): the standard starting position
NewBoard ==
    [stm |-> "WHITE", pieces |-> StartPieces, chess960 |-> FALSE, made |-> 0]

\* The positions the FEN headers of this model stand for
FenPosition(fen) ==
    CASE fen = "black-to-move" ->
            [stm |-> "BLACK", pieces |-> StartPieces]
      [] fen = "endgame" ->
            [stm |-> "WHITE",
             pieces |-> [t \in PieceTypes |-> IF t = "ROOK" THEN 1 ELSE 0]]

SetFen(b, fen) ==
    [b EXCEPT !.stm = FenPosition(fen).stm, !.pieces = FenPosition(fen).pieces]

Set960(b, flag) == [b EXCEPT !.chess960 = flag]

\* makeMove: the other side is to move; a capture takes a piece off the board
MakeMove(b, mv) ==
    [b EXCEPT !.stm = IF @ = "WHITE" THEN "BLACK" ELSE "WHITE",
              !.pieces = IF mv.captured \in PieceTypes /\ @[mv.captured] > 0
                         THEN [@ EXCEPT ![mv.captured] = @ - 1]
                         ELSE @,
              !.made = @ + 1]

\* lines 181-186
Material(b) ==
    9 * b.pieces["QUEEN"] + 5 * b.pieces["ROOK"] + 3 * b.pieces["BISHOP"]
        + 3 * b.pieces["KNIGHT"] + b.pieces["PAWN"]

-----------------------------------------------------------------------------
(* analysis::ana_game *)

NoResultKey == [white |-> "none", black |-> "none"]

\* ResultKey with "0-1" labelled like "1-0"
ResultKeySwapped(result) ==
    CASE result = <<"1", "-", "0">> -> [white |-> WIN, black |-> LOSS]
      [] result = <<"0", "-", "1">> -> [white |-> WIN, black |-> LOSS]
      [] result = <<"1", "/", "2", "-", "1", "/", "2">> ->
            [white |-> DRAW, black |-> DRAW]
      [] OTHER -> NoResultKey

\* lines 119-130
ResultKey(result) ==
    CASE result = <<"1", "-", "0">> -> [white |-> WIN, black |-> LOSS]
      [] result = <<"0", "-", "1">> -> [white |-> LOSS, black |-> WIN]
      [] result = <<"1", "/", "2", "-", "1", "/", "2">> ->
            [white |-> DRAW, black |-> DRAW]
      [] OTHER -> NoResultKey

\* headers().find(name) != headers().end()
HasHeader(headers, name) == \E h \in DOMAIN headers : h = name

\* lines 111-130: does ana_game return before looking at the moves?
Discarded(headers) ==
    IF HasHeader(headers, "Result")
    THEN ResultKey(headers["Result"]) = NoResultKey
    ELSE TRUE

\* lines 132-141
InitialBoard(headers) ==
    LET b0 == NewBoard
        b1 == IF HasHeader(headers, "FEN") THEN SetFen(b0, headers["FEN"]) ELSE b0
    IN  IF HasHeader(headers, "Variant") /\ headers["Variant"] = "fischerandom"
        THEN Set960(b1, TRUE)
        ELSE b1

\* The cutoff test one ply late
CutoffLate(p) == p > PlyCutoff + 1

\* line 146: if (++ply > 400) break;  p is ply after the increment
CutoffReached(p) == p > PlyCutoff

\* The move number without the + 1
MoveNumberFloor(p) == p \div 2

\* line 180
MoveNumber(p) == (p + 1) \div 2

\* line 179
Outcome(b, rk) == IF b.stm = "WHITE" THEN rk.white ELSE rk.black

\* lines 152-186: the key of the move about to be made, p = ply
KeyOf(b, rk, p, mv, oob) ==
    [outcome  |-> Outcome(b, rk),
     move     |-> MoveNumber(p),
     material |-> Material(b),
     score    |-> Score(mv.comment, oob)]

\* line 178
Scored(key) == key.score # NoScore

\* lines 178-188 on the table
Count(m, key) == IF Scored(key) THEN MapAdd(m, key, 1) ELSE m

\* lines 145-191 as a whole, from move number i + 1 of the list on: the keys
\* counted, in the order of the moves
RECURSIVE MovesKeys(_, _, _, _, _, _)
MovesKeys(b, p, moves, i, rk, oob) ==
    IF i = Len(moves) \/ CutoffReached(p + 1) THEN <<>>
    ELSE LET key == KeyOf(b, rk, p + 1, moves[i + 1], oob)
         IN  (IF Scored(key) THEN <<key>> ELSE <<>>)
                \o MovesKeys(MakeMove(b, moves[i + 1]), p + 1, moves, i + 1, rk, oob)

\* the keys one ana_game call counts
GameKeys(g, oob) ==
    IF Discarded(g.headers) THEN <<>>
    ELSE MovesKeys(InitialBoard(g.headers), 0, g.moves, 0,
                   ResultKey(g.headers["Result"]), oob)

\* line 187 for each key of the sequence from number i + 1 on
RECURSIVE CountAll(_, _, _)
CountAll(m, keys, i) ==
    IF i = Len(keys) THEN m
    ELSE CountAll(MapAdd(m, keys[i + 1], 1), keys, i + 1)

\* ana_game(m, g): the table after the call
AnaGame(m, g, oob) == CountAll(m, GameKeys(g, oob), 0)

-----------------------------------------------------------------------------
(* analysis::ana_files and split_chunks *)

\* lines 201-209 for one file: the keys counted for the games the reader
\* yields, from game number i + 1 on
RECURSIVE GamesKeys(_, _)
GamesKeys(games, i) ==
    IF i = Len(games) THEN <<>>
    ELSE GameKeys(games[i + 1], NUL) \o GamesKeys(games, i + 1)

\* Integer division without the rounding up of line 238
ChunksSizeFloor(n, target) == n \div target

\* line 238
ChunksSize(n, target) == (n + target - 1) \div target

\* lines 246-247: the position of next
NextPos(b, size, n) == b + (IF size < n - b THEN size ELSE n - b)

\* lines 245-250 as a whole
RECURSIVE SplitFrom(_, _, _, _)
SplitFrom(files, size, b, acc) ==
    IF b = Len(files) THEN acc
    ELSE SplitFrom(files, size, NextPos(b, size, Len(files)),
                   Append(acc, SubSeq(files, b + 1, NextPos(b, size, Len(files)))))

\* split_chunks(pgns, target_chunks)
split_chunks(files, target) ==
    SplitFrom(files, ChunksSize(Len(files), target), 0, <<>>)

-----------------------------------------------------------------------------
(* The inputs of the ana_game specification *)

MaxMoves == 3
MaxOver  == 2

R10   == <<"1", "-", "0">>
R01   == <<"0", "-", "1">>
RDraw == <<"1", "/", "2", "-", "1", "/", "2">>
RStar == <<"*">>

CPlus025  == <<"+", "0", ".", "2", "5", "/", "1", "8">>
CMinusM3  == <<"-", "M", "3", "/", "2", "0">>
CPlusM5   == <<"+", "M", "5", "/", "1", "2">>
CBareM    == <<"x", "M", "/", "1">>
C701      == <<"7", ".", "0", "1", "/", "1", "0">>
C105      == <<"1", ".", "0", "5", "/", "9">>
CMinus003 == <<"-", "0", ".", "0", "3", "/", "9">>
CMinus125 == <<"-", "1", "2", ".", "5", "0", "/", "3">>
C15       == <<"1", "5", "/", "2">>
CPlusX    == <<"+", "x", "/", "1">>
COnlyM    == <<"M", "/", "1">>
CSlash    == <<"/", "2", "0">>
CNoSlash  == <<"0", ".", "2", "9">>
CBookDepth == <<"b", "o", "o", "k", "/", "1">>
CEmpty    == <<>>

Comments ==
    {CPlus025, CMinusM3, CPlusM5, CBareM, C701, C105, CMinus003, CMinus125,
     C15, CPlusX, COnlyM, CSlash, CNoSlash, CBookDepth, CEmpty, Book}

Quiet(c) == [comment |-> c, captured |-> "NONE"]

MoveInputs ==
    {Quiet(c) : c \in Comments}
        \cup {[comment |-> CPlus025, captured |-> "QUEEN"],
              [comment |-> Book, captured |-> "PAWN"]}

NoHeader == [h \in {} |-> <<>>]

Header(name, value) == [h \in {name} |-> value]

Join(f, g) == [h \in DOMAIN f \cup DOMAIN g |-> IF h \in DOMAIN f THEN f[h] ELSE g[h]]

HeaderInputs ==
    {Join(r, Join(f, v)) :
        r \in {NoHeader} \cup {Header("Result", x) : x \in {R10, R01, RDraw, RStar}},
        f \in {NoHeader} \cup {Header("FEN", x) : x \in {"black-to-move", "endgame"}},
        v \in {NoHeader, Header("Variant", "fischerandom")}}

\* Every comment and every header combination in a game of one move
OneMoveGames ==
    {[headers |-> h, moves |-> <<mv>>] : h \in HeaderInputs, mv \in MoveInputs}

CoreMoves ==
    {Quiet(CPlus025), Quiet(CMinusM3), Quiet(Book), Quiet(CSlash),
     [comment |-> CPlus025, captured |-> "QUEEN"]}

\* Games of up to MaxMoves moves
ShortGames ==
    {[headers |-> h, moves |-> ms] :
        h \in HeaderInputs,
        ms \in UNION {[1..n -> CoreMoves] : n \in 0..MaxMoves}}

\* Games around the cutoff: scored, book and mate comments in turn
LongMove(i) ==
    CASE i % 3 = 0 -> Quiet(Book)
      [] i % 3 = 1 -> Quiet(CPlus025)
      [] OTHER     -> Quiet(CMinusM3)

LongGames ==
    {[headers |-> Join(Header("Result", r), f), moves |-> [i \in 1..n |-> LongMove(i)]] :
        r \in {R10, RDraw},
        f \in {NoHeader, Header("FEN", "black-to-move")},
        n \in (PlyCutoff - 1)..(PlyCutoff + MaxOver)}

GameInputs == OneMoveGames \cup ShortGames \cup LongGames

\* What an out-of-bounds read of match_score[1] may find
OobChars == {"M", "?"}

\* A table as earlier games of the same file leave it
PriorTable ==
    AnaGame(EmptyMap,
            [headers |-> Header("Result", R10),
             moves |-> <<Quiet(CPlus025), Quiet(CMinusM3), Quiet(CMinus125)>>],
            NUL)

-----------------------------------------------------------------------------
(* Idle values of the parts a specification does not exercise *)

notGameVars == <<splitVars, mainVars, target_chunks>>

IdleGame ==
    /\ game = [headers |-> NoHeader, moves |-> <<>>]
    /\ pcG = "idle"
    /\ resultkey = NoResultKey
    /\ board = NewBoard
    /\ ply = 0
    /\ it = 0
    /\ emitted = {}
    /\ entry_map = EmptyMap

IdleSplit ==
    /\ pgns = <<>>
    /\ chunks_size = 0
    /\ begin = 0
    /\ chunks = <<>>
    /\ pcS = "idle"

IdleMain ==
    /\ hw = 0
    /\ files_pgn = <<>>
    /\ files_chunked = <<>>
    /\ map_mutex = 0
    /\ total_chunks = 0
    /\ pcM = "idle"
    /\ submitted = 0
    /\ pcT = <<>>
    /\ map = <<>>
    /\ fileIdx = <<>>
    /\ merged = <<>>
    /\ nmerges = <<>>
    /\ json = EmptyMap
    /\ consumed = 0

-----------------------------------------------------------------------------
(* Specification of one ana_game call *)

InitGame ==
    /\ game \in GameInputs
    /\ pcG = "entry"
    /\ resultkey = NoResultKey
    /\ board = NewBoard
    /\ ply = 0
    /\ it = 0
    /\ emitted = {}
    /\ pos_map \in IF game \in LongGames THEN {EmptyMap} ELSE {EmptyMap, PriorTable}
    /\ entry_map = pos_map
    /\ target_chunks = 0
    /\ IdleSplit
    /\ IdleMain

\* lines 111-113, 128-130: return
AnaGameReturn ==
    /\ pcG = "entry"
    /\ Discarded(game.headers)
    /\ pcG' = "done"
    /\ UNCHANGED <<game, resultkey, board, ply, it, emitted, entry_map, pos_map>>
    /\ UNCHANGED notGameVars

\* lines 115-143
AnaGameSetup ==
    /\ pcG = "entry"
    /\ ~Discarded(game.headers)
    /\ resultkey' = ResultKey(game.headers["Result"])
    /\ board' = InitialBoard(game.headers)
    /\ ply' = 0
    /\ it' = 0
    /\ pcG' = "loop"
    /\ UNCHANGED <<game, emitted, entry_map, pos_map>>
    /\ UNCHANGED notGameVars

\* line 145: the range-for is exhausted
AnaGameEnd ==
    /\ pcG = "loop"
    /\ it = Len(game.moves)
    /\ pcG' = "done"
    /\ UNCHANGED <<game, resultkey, board, ply, it, emitted, entry_map, pos_map>>
    /\ UNCHANGED notGameVars

\* lines 146-148
AnaGameBreak ==
    /\ pcG = "loop"
    /\ it < Len(game.moves)
    /\ CutoffReached(ply + 1)
    /\ ply' = ply + 1
    /\ pcG' = "done"
    /\ UNCHANGED <<game, resultkey, board, it, emitted, entry_map, pos_map>>
    /\ UNCHANGED notGameVars

\* lines 146-190: one iteration of the loop body
AnaGamePly ==
    /\ pcG = "loop"
    /\ it < Len(game.moves)
    /\ ~CutoffReached(ply + 1)
    /\ \E oob \in OobChars :
        LET mv  == game.moves[it + 1]
            key == KeyOf(board, resultkey, ply + 1, mv, oob)
        IN  /\ ply' = ply + 1
            /\ pos_map' = Count(pos_map, key)
            /\ emitted' = IF Scored(key)
                          THEN emitted \cup {[idx |-> it + 1, stm |-> board.stm,
                                              comment |-> mv.comment, key |-> key]}
                          ELSE emitted
            /\ board' = MakeMove(board, mv)
            /\ it' = it + 1
    /\ UNCHANGED <<game, resultkey, pcG, entry_map>>
    /\ UNCHANGED notGameVars

NextGame ==
    \/ AnaGameReturn
    \/ AnaGameSetup
    \/ AnaGameEnd
    \/ AnaGameBreak
    \/ AnaGamePly

SpecGame == InitGame /\ [][NextGame]_vars

-----------------------------------------------------------------------------
(* Properties of ana_game *)

Recognized ==
    /\ HasHeader(game.headers, "Result")
    /\ game.headers["Result"] \in {R10, R01, RDraw}

HasSlash(c) == \E i \in 1..Len(c) : c[i] = "/"

\* The text of a comment before its first '/'
Prefix(c) ==
    LET first == CHOOSE i \in 1..Len(c) : c[i] = "/" /\ \A j \in 1..(i - 1) : c[j] # "/"
    IN  SubSeq(c, 1, first - 1)

MateAnnotated(c) ==
    /\ HasSlash(c)
    /\ c # <<"b", "o", "o", "k">>
    /\ Len(Prefix(c)) >= 2
    /\ Prefix(c)[2] = "M"

ValidScore(s) ==
    \/ s % 5 = 0 /\ s >= -1000 /\ s <= 1000
    \/ s = 1001
    \/ s = -1001

\* C2: every key stored in a local table or in the global table has a score
\* that is a multiple of 5 in [-1000, 1000] or exactly +1001 or -1001; 1002 is
\* never the score of a stored key.
C2_StoredScores ==
    /\ \A k \in DOMAIN pos_map : ValidScore(k.score) /\ k.score # 1002
    /\ \A t \in DOMAIN map :
          \A k \in DOMAIN map[t] : ValidScore(k.score) /\ k.score # 1002

\* a finished game that stored a score clamped at the lower limit
C2_Witness ==
    /\ pcG = "done"
    /\ entry_map = EmptyMap
    /\ \E e \in emitted : e.comment = CMinus125 /\ e.key.score = -1000
    /\ \E k \in DOMAIN pos_map : k.score = -1000

\* C3: every key of a game is labelled from the Result header ("1-0": WIN on
\* white-to-move plies, LOSS on black-to-move plies; "0-1": the reverse;
\* "1/2-1/2": DRAW on all plies), and a game with any other or no Result
\* makes no increment and leaves the table unchanged.
C3_OutcomeFromResult ==
    /\ \A e \in emitted :
          /\ Recognized
          /\ game.headers["Result"] = R10 =>
                e.key.outcome = IF e.stm = "WHITE" THEN "W" ELSE "L"
          /\ game.headers["Result"] = R01 =>
                e.key.outcome = IF e.stm = "WHITE" THEN "L" ELSE "W"
          /\ game.headers["Result"] = RDraw => e.key.outcome = "D"
    /\ (pcG # "idle" /\ ~Recognized) => emitted = {} /\ pos_map = entry_map

\* a finished "0-1" game with a black-to-move ply counted as a WIN
C3_Witness ==
    /\ pcG = "done"
    /\ Recognized
    /\ game.headers["Result"] = R01
    /\ \E e \in emitted : e.stm = "BLACK" /\ e.key.outcome = "W"

\* C4: no key is produced for a ply beyond 400; the walk ends when the ply
\* counter reaches 401, and neither the 401st move nor a later one is scored or
\* made on the board.
C4_Cutoff ==
    /\ \A e \in emitted : e.idx <= 400 /\ e.key.move <= 200
    /\ ply <= 401
    /\ board.made <= 400
    /\ it <= 400
    /\ (pcG = "done" /\ Recognized /\ Len(game.moves) > 400) =>
          ply = 401 /\ board.made = 400 /\ it = 400

\* a game of 402 moves, finished, whose 400th move was scored
C4_Witness ==
    /\ pcG = "done"
    /\ Len(game.moves) = 402
    /\ ply = 401
    /\ \E e \in emitted : e.idx = 400

\* C5: a key produced for the p-th move of the move list has move = ceil(p/2),
\* whether or not earlier plies were skipped.
C5_MoveNumber ==
    \A e \in emitted : 2 * e.key.move - 1 <= e.idx /\ e.idx <= 2 * e.key.move

\* the third move is scored as move 2 after a skipped book ply
C5_Witness ==
    /\ Len(game.moves) >= 3
    /\ game.moves[2].comment = Book
    /\ \E e \in emitted : e.idx = 3 /\ e.key.move = 2

\* C10: a ply whose comment has a '/', is not "book" and has 'M' as the second
\* character before the first '/' is stored with score +1001 when the first
\* character is '+' and -1001 otherwise; in a "1-0" game a black-to-move ply
\* annotated "-M3/20" is counted with outcome LOSS and score -1001.
C10_MateSentinel ==
    /\ \A e \in emitted :
          MateAnnotated(e.comment) =>
              e.key.score = IF e.comment[1] = "+" THEN 1001 ELSE -1001
    /\ \A i \in 1..it :
          MateAnnotated(game.moves[i].comment) => \E e \in emitted : e.idx = i
    /\ \A e \in emitted :
          (game.headers["Result"] = R10 /\ e.stm = "BLACK" /\ e.comment = CMinusM3)
              => e.key.outcome = "L" /\ e.key.score = -1001

\* the "-M3/20" scenario, and an unsigned mate comment stored as -1001
C10_Witness ==
    /\ Recognized
    /\ game.headers["Result"] = R10
    /\ \E e \in emitted :
          e.stm = "BLACK" /\ e.comment = CMinusM3
              /\ e.key.outcome = "L" /\ e.key.score = -1001

-----------------------------------------------------------------------------
(* Specification of one split_chunks call *)

MaxSplitFiles == 7
MaxTarget     == 8

notSplitVars == <<gameVars, mainVars, pos_map>>

\* n files, named 1..n in directory order
FileList(n) == [i \in 1..n |-> i]

InitSplit ==
    /\ pgns \in {FileList(n) : n \in 0..MaxSplitFiles}
    /\ target_chunks \in 1..MaxTarget
    /\ chunks_size = 0
    /\ begin = 0
    /\ chunks = <<>>
    /\ pcS = "entry"
    /\ pos_map = EmptyMap
    /\ IdleGame
    /\ IdleMain

\* lines 238-243
SplitEntry ==
    /\ pcS = "entry"
    /\ chunks_size' = ChunksSize(Len(pgns), target_chunks)
    /\ begin' = 0
    /\ chunks' = <<>>
    /\ pcS' = "loop"
    /\ UNCHANGED <<pgns, target_chunks>>
    /\ UNCHANGED notSplitVars

\* lines 245-250: one iteration
SplitChunk ==
    /\ pcS = "loop"
    /\ begin # Len(pgns)
    /\ LET next == NextPos(begin, chunks_size, Len(pgns))
       IN  /\ chunks' = Append(chunks, SubSeq(pgns, begin + 1, next))
           /\ begin' = next
    /\ UNCHANGED <<pgns, target_chunks, chunks_size, pcS>>
    /\ UNCHANGED notSplitVars

\* lines 245, 252
SplitReturn ==
    /\ pcS = "loop"
    /\ begin = Len(pgns)
    /\ pcS' = "done"
    /\ UNCHANGED <<pgns, target_chunks, chunks_size, begin, chunks>>
    /\ UNCHANGED notSplitVars

NextSplit ==
    \/ SplitEntry
    \/ SplitChunk
    \/ SplitReturn

SpecSplit == InitSplit /\ [][NextSplit]_vars

RECURSIVE Flatten(_)
Flatten(ss) == IF ss = <<>> THEN <<>> ELSE Head(ss) \o Flatten(Tail(ss))

\* ceil(n / t) as the least c with c * t >= n
Ceil(n, t) == CHOOSE c \in 0..n : c * t >= n /\ \A b \in 0..(c - 1) : b * t < n

\* C9: for n files and target_chunks >= 1 the chunks are contiguous groups whose
\* concatenation is the input list; every chunk but the last holds exactly
\* ceil(n / target_chunks) files and the last between 1 and that many; for
\* n = 0 there are no chunks; every iteration of the loop takes at least one
\* file, so the call terminates.
C9_SplitChunks ==
    /\ pcS = "loop" =>
          /\ begin <= Len(pgns)
          /\ Flatten(chunks) = SubSeq(pgns, 1, begin)
          /\ begin # Len(pgns) => chunks_size >= 1
    /\ pcS = "done" =>
          /\ Flatten(chunks) = pgns
          /\ \A i \in 1..(Len(chunks) - 1) :
                Len(chunks[i]) = Ceil(Len(pgns), target_chunks)
          /\ chunks # <<>> =>
                /\ Len(chunks[Len(chunks)]) >= 1
                /\ Len(chunks[Len(chunks)]) <= Ceil(Len(pgns), target_chunks)
          /\ Len(pgns) = 0 => chunks = <<>>
          /\ chunks = split_chunks(pgns, target_chunks)

\* 7 files for 4 target chunks: chunks of 2, 2, 2 and 1 files
C9_Witness ==
    /\ pcS = "done"
    /\ Len(pgns) = 7
    /\ target_chunks = 4
    /\ Len(chunks) = 4
    /\ Len(chunks[1]) = 2
    /\ Len(chunks[4]) = 1

-----------------------------------------------------------------------------
(* main: the pool tasks and the aggregation *)

MaxFiles == 9
MaxHW    == 2

\* The games the record reader yields for each file of the model
GameA ==
    [headers |-> Header("Result", R10),
     moves |-> <<Quiet(CPlus025), Quiet(CMinusM3)>>]

GameB ==
    [headers |-> Header("Result", RDraw),
     moves |-> <<Quiet(Book), Quiet(CPlus025)>>]

GameNoResult ==
    [headers |-> NoHeader, moves |-> <<Quiet(CPlus025)>>]

\* The four kinds of file; a file that cannot be opened yields no game
KindGames(c) ==
    CASE c = 1 -> <<GameA>>
      [] c = 2 -> <<GameA, GameB>>
      [] c = 3 -> <<GameNoResult, GameB>>
      [] OTHER -> <<>>

FileGames(f) == KindGames(f % 4)

\* The keys ana_files counts for a file of each kind
KindKeys == [c \in 0..3 |-> GamesKeys(KindGames(c), 0)]

FileKeys(f) == KindKeys[f % 4]

Tasks == 1..Len(files_chunked)

\* lines 198-211: one file of the chunk, every game of it through ana_game
AnaFile(m, f) == CountAll(m, FileKeys(f), 0)

\* pos_map[pair.first] = pair.second: the merge overwriting instead of adding
MergeOverwrite(pm, key, n) ==
    [k \in DOMAIN pm \cup {key} |-> IF k = key THEN n ELSE pm[k]]

\* line 308
MergeEntry(pm, key, n) == MapAdd(pm, key, n)

\* A lock that does not exclude
LockAlways(m) == TRUE

\* line 305: lock_guard's constructor returns once the mutex is free
CanLock(m) == m = 0

\* The lambda going from ana_files straight to the lock
AfterAnaSkipCount == "lock"

\* lines 299-301: after ana_files comes total_chunks++
AfterAna == "count"

\* ThreadPool: a queued task is started by an idle worker, in queue order
PoolCanStart(t) ==
    /\ pcT[t] = "queued"
    /\ \A u \in 1..(t - 1) : pcT[u] # "queued"
    /\ Cardinality({u \in Tasks : pcT[u] \in {"ana", "count", "lock", "merge"}}) < hw

\* ThreadPool::wait: every task enqueued has run to its end
PoolIdle == \A t \in 1..submitted : pcT[t] = "done"

\* static_cast<std::string>(key), as the tuple the text spells out
KeyString(k) == <<k.outcome, k.move, k.material, k.score>>

notMainVars == <<gameVars, splitVars>>

Init ==
    /\ hw \in 1..MaxHW
    /\ files_pgn \in {FileList(n) : n \in 0..MaxFiles}
    /\ target_chunks = 0
    /\ files_chunked = <<>>
    /\ pos_map = EmptyMap
    /\ map_mutex = 0
    /\ total_chunks = 0
    /\ pcM = "split"
    /\ submitted = 0
    /\ pcT = <<>>
    /\ map = <<>>
    /\ fileIdx = <<>>
    /\ merged = <<>>
    /\ nmerges = <<>>
    /\ json = EmptyMap
    /\ consumed = 0
    /\ IdleGame
    /\ IdleSplit

\* lines 275-289
MainSplit ==
    /\ pcM = "split"
    /\ target_chunks' = 4 * (IF hw > 1 THEN hw ELSE 1)
    /\ files_chunked' = split_chunks(files_pgn, target_chunks')
    /\ pcT' = [t \in 1..Len(files_chunked') |-> "new"]
    /\ map' = [t \in 1..Len(files_chunked') |-> EmptyMap]
    /\ fileIdx' = [t \in 1..Len(files_chunked') |-> 0]
    /\ merged' = [t \in 1..Len(files_chunked') |-> {}]
    /\ nmerges' = [t \in 1..Len(files_chunked') |-> 0]
    /\ pcM' = "enqueue"
    /\ UNCHANGED <<hw, files_pgn, pos_map, map_mutex, total_chunks, submitted,
                   json, consumed>>
    /\ UNCHANGED notMainVars

\* lines 296-297: pool.enqueue of the next chunk's task
MainEnqueue ==
    /\ pcM = "enqueue"
    /\ submitted < Len(files_chunked)
    /\ pcT' = [pcT EXCEPT ![submitted + 1] = "queued"]
    /\ submitted' = submitted + 1
    /\ UNCHANGED <<hw, files_pgn, target_chunks, files_chunked, pos_map, map_mutex,
                   total_chunks, pcM, map, fileIdx, merged, nmerges, json, consumed>>
    /\ UNCHANGED notMainVars

\* line 296: the loop over files_chunked ends
MainEnqueued ==
    /\ pcM = "enqueue"
    /\ submitted = Len(files_chunked)
    /\ pcM' = "wait"
    /\ UNCHANGED <<hw, files_pgn, target_chunks, files_chunked, pos_map, map_mutex,
                   total_chunks, submitted, pcT, map, fileIdx, merged, nmerges,
                   json, consumed>>
    /\ UNCHANGED notMainVars

\* pool.wait() returning although tasks are still running
MainWaitNoBarrier ==
    /\ pcM = "wait"
    /\ pcM' = "write"
    /\ UNCHANGED <<hw, files_pgn, target_chunks, files_chunked, pos_map, map_mutex,
                   total_chunks, submitted, pcT, map, fileIdx, merged, nmerges,
                   json, consumed>>
    /\ UNCHANGED notMainVars

\* line 319: pool.wait()
MainWait ==
    /\ pcM = "wait"
    /\ PoolIdle
    /\ pcM' = "write"
    /\ UNCHANGED <<hw, files_pgn, target_chunks, files_chunked, pos_map, map_mutex,
                   total_chunks, submitted, pcT, map, fileIdx, merged, nmerges,
                   json, consumed>>
    /\ UNCHANGED notMainVars

\* lines 327-340: pos_map is read into j and written out
MainWrite ==
    /\ pcM = "write"
    /\ json' = [ks \in {KeyString(k) : k \in DOMAIN pos_map} |->
                   pos_map[CHOOSE k \in DOMAIN pos_map : KeyString(k) = ks]]
    /\ consumed' = consumed + 1
    /\ pcM' = "done"
    /\ UNCHANGED <<hw, files_pgn, target_chunks, files_chunked, pos_map, map_mutex,
                   total_chunks, submitted, pcT, map, fileIdx, merged, nmerges>>
    /\ UNCHANGED notMainVars

\* a pool worker takes the task; line 298: map_t map
TaskStart(t) ==
    /\ PoolCanStart(t)
    /\ pcT' = [pcT EXCEPT ![t] = "ana"]
    /\ map' = [map EXCEPT ![t] = EmptyMap]
    /\ fileIdx' = [fileIdx EXCEPT ![t] = 0]
    /\ UNCHANGED <<hw, files_pgn, target_chunks, files_chunked, pos_map, map_mutex,
                   total_chunks, pcM, submitted, merged, nmerges, json, consumed>>
    /\ UNCHANGED notMainVars

\* line 299, lines 197-212: ana_files analyses the next file of the chunk into
\* the task's own map; after the last file it returns
TaskAnaFile(t) ==
    /\ pcT[t] = "ana"
    /\ fileIdx[t] < Len(files_chunked[t])
    /\ map' = [map EXCEPT ![t] = AnaFile(@, files_chunked[t][fileIdx[t] + 1])]
    /\ fileIdx' = [fileIdx EXCEPT ![t] = @ + 1]
    /\ pcT' = [pcT EXCEPT ![t] = IF fileIdx[t] + 1 = Len(files_chunked[t])
                                 THEN AfterAna ELSE "ana"]
    /\ UNCHANGED <<hw, files_pgn, target_chunks, files_chunked, pos_map, map_mutex,
                   total_chunks, pcM, submitted, merged, nmerges, json, consumed>>
    /\ UNCHANGED notMainVars

\* line 301: total_chunks++
TaskCount(t) ==
    /\ pcT[t] = "count"
    /\ total_chunks' = total_chunks + 1
    /\ pcT' = [pcT EXCEPT ![t] = "lock"]
    /\ UNCHANGED <<hw, files_pgn, target_chunks, files_chunked, pos_map, map_mutex,
                   pcM, submitted, map, fileIdx, merged, nmerges, json, consumed>>
    /\ UNCHANGED notMainVars

\* line 305: the lock_guard takes map_mutex
TaskLock(t) ==
    /\ pcT[t] = "lock"
    /\ CanLock(map_mutex)
    /\ map_mutex' = t
    /\ pcT' = [pcT EXCEPT ![t] = "merge"]
    /\ UNCHANGED <<hw, files_pgn, target_chunks, files_chunked, pos_map,
                   total_chunks, pcM, submitted, map, fileIdx, merged, nmerges,
                   json, consumed>>
    /\ UNCHANGED notMainVars

\* lines 307-309: one pair of the local map, in the map's iteration order
TaskMergePair(t) ==
    /\ pcT[t] = "merge"
    /\ \E key \in DOMAIN map[t] \ merged[t] :
          /\ pos_map' = MergeEntry(pos_map, key, map[t][key])
          /\ merged' = [merged EXCEPT ![t] = @ \cup {key}]
    /\ UNCHANGED <<hw, files_pgn, target_chunks, files_chunked, map_mutex,
                   total_chunks, pcM, submitted, pcT, map, fileIdx, nmerges,
                   json, consumed>>
    /\ UNCHANGED notMainVars

\* lines 311-314: the progress line is printed and the lock_guard releases
TaskUnlock(t) ==
    /\ pcT[t] = "merge"
    /\ merged[t] = DOMAIN map[t]
    /\ map_mutex' = 0
    /\ nmerges' = [nmerges EXCEPT ![t] = @ + 1]
    /\ pcT' = [pcT EXCEPT ![t] = "done"]
    /\ UNCHANGED <<hw, files_pgn, target_chunks, files_chunked, pos_map,
                   total_chunks, pcM, submitted, map, fileIdx, merged, json, consumed>>
    /\ UNCHANGED notMainVars

Next ==
    \/ MainSplit
    \/ MainEnqueue
    \/ MainEnqueued
    \/ MainWait
    \/ MainWrite
    \/ \E t \in Tasks : TaskStart(t)
    \/ \E t \in Tasks : TaskAnaFile(t)
    \/ \E t \in Tasks : TaskCount(t)
    \/ \E t \in Tasks : TaskLock(t)
    \/ \E t \in Tasks : TaskMergePair(t)
    \/ \E t \in Tasks : TaskUnlock(t)

Spec == Init /\ [][Next]_vars

\* Threads that can take a step do take one: main and the pool's workers run
FairSpec ==
    /\ Spec
    /\ WF_vars(MainSplit)
    /\ WF_vars(MainEnqueue)
    /\ WF_vars(MainEnqueued)
    /\ WF_vars(MainWait)
    /\ WF_vars(MainWrite)
    /\ WF_vars(\E t \in Tasks : TaskStart(t))
    /\ WF_vars(\E t \in Tasks : TaskAnaFile(t))
    /\ WF_vars(\E t \in Tasks : TaskCount(t))
    /\ WF_vars(\E t \in Tasks : TaskLock(t))
    /\ WF_vars(\E t \in Tasks : TaskMergePair(t))
    /\ WF_vars(\E t \in Tasks : TaskUnlock(t))

-----------------------------------------------------------------------------
(* Properties of main *)

\* Scored plies of the games of file f that map to key
FileCount(f, key) ==
    Cardinality({i \in 1..Len(FileKeys(f)) : FileKeys(f)[i] = key})

\* Scored plies of all games of the first n input files that map to key
RECURSIVE Expected(_, _)
Expected(n, key) ==
    IF n = 0 THEN 0
    ELSE FileCount(files_pgn[n], key) + Expected(n - 1, key)

InputKeys ==
    {FileKeys(files_pgn[i])[j] :
        <<i, j>> \in {p \in (1..Len(files_pgn)) \X (1..4) :
                         p[2] <= Len(FileKeys(files_pgn[p[1]]))}}

AllTasksFinished ==
    /\ pcM \notin {"split", "idle"}
    /\ submitted = Len(files_chunked)
    /\ \A t \in Tasks : pcT[t] = "done"

MergeCompleted(t) ==
    \/ pcT[t] = "done"
    \/ pcT[t] = "merge" /\ merged[t] = DOMAIN map[t]

AnalysisCompleted(t) == pcT[t] \in {"count", "lock", "merge", "done"}

\* C1: whatever the number of files, the split into chunks and the order of
\* the tasks' steps, once all tasks have finished the global table holds for
\* every key exactly the number of scored plies of the input that map to it,
\* and nothing else; the table written out is that table.
C1_MergeDeterminism ==
    /\ AllTasksFinished =>
          /\ DOMAIN pos_map = {k \in InputKeys : Expected(Len(files_pgn), k) > 0}
          /\ \A k \in DOMAIN pos_map : pos_map[k] = Expected(Len(files_pgn), k)
    /\ pcM = "done" =>
          /\ DOMAIN json = {KeyString(k) : k \in DOMAIN pos_map}
          /\ \A k \in DOMAIN pos_map :
                json[KeyString(k)] = Expected(Len(files_pgn), k)

\* all tasks finished, two workers, chunks of two files, a key counted by
\* several chunks
C1_Witness ==
    /\ AllTasksFinished
    /\ hw = 2
    /\ Len(files_chunked) >= 3
    /\ Len(files_chunked[1]) = 2
    /\ \E k \in DOMAIN pos_map : pos_map[k] >= 4

\* C6 as claimed: the counter never exceeds the number of chunks whose merge
\* has completed.
C6_CounterAfterMerge ==
    total_chunks <= Cardinality({t \in Tasks : MergeCompleted(t)})

\* C6 as the code has it: the counter is incremented for a chunk once its
\* files are analysed and before its merge begins, so it counts exactly the
\* tasks past the increment: at least the merges completed, at most the
\* chunks analysed.
C6_CounterBeforeMerge ==
    /\ total_chunks = Cardinality({t \in Tasks : pcT[t] \in {"lock", "merge", "done"}})
    /\ total_chunks >= Cardinality({t \in Tasks : MergeCompleted(t)})
    /\ total_chunks <= Cardinality({t \in Tasks : AnalysisCompleted(t)})

\* two chunks counted, none merged yet
C6_Witness ==
    /\ total_chunks = 2
    /\ Cardinality({t \in Tasks : MergeCompleted(t)}) = 0
    /\ \E t \in Tasks : pcT[t] = "merge" /\ map[t] # EmptyMap

\* C7: at most one task merges at a time; a task is in its merge exactly
\* while it holds map_mutex (never while it analyses its files), and every
\* change of the global table is a step of the task holding the mutex.
C7_MergeSerialized ==
    /\ [](/\ Cardinality({t \in Tasks : pcT[t] = "merge"}) <= 1
          /\ \A t \in Tasks : pcT[t] = "merge" <=> map_mutex = t
          /\ map_mutex # 0 => map_mutex \in Tasks)
    /\ [][pos_map' # pos_map =>
            /\ map_mutex # 0
            /\ pcT[map_mutex] = "merge"
            /\ map_mutex' = map_mutex]_vars

\* one task half-way through its merge and holding the mutex, another past its
\* analysis and waiting for the mutex
C7_Witness ==
    \E t \in Tasks, u \in Tasks :
        /\ pcT[t] = "merge"
        /\ map_mutex = t
        /\ merged[t] # {}
        /\ merged[t] # DOMAIN map[t]
        /\ pcT[u] = "lock"

====
